---- MODULE Spec2Model ----
(***************************************************************************)
(* Role-based authorization, queryset scoping, group synchronization and   *)
(* the primary-contact rule of the patient monitoring system               *)
(* (app/core/models.py, app/core/mixins.py, app/core/admin.py and the      *)
(* management commands).                                                   *)
(***************************************************************************)
EXTENDS Integers, FiniteSets, Sequences, TLC

\* ------------------------------------------------------------------ bounds
MaxUsers == 3
MaxContacts == 3
\* EmergencyContact.save calls that may be in flight at once
MaxSavers == 2

Users == 1..MaxUsers
ContactIds == 1..MaxContacts
Savers == 1..MaxSavers

\* ------------------------------------------------------- program constants
\* UserProfile.ROLE_CHOICES
Roles == {"patient", "doctor", "nurse", "pharmacy", "admin"}
\* a role value outside ROLE_CHOICES (UserProfile.save does not validate it)
UnknownRole == "unknown"
\* request.user has no related UserProfile (hasattr(user, "profile") is False)
NoProfile == "none"
\* role_to_group.get(role) found nothing
NoGroup == "nogroup"
GroupNames == {"Patients", "Doctors", "Nurses", "Pharmacy", "Administrators"}
\* obj=None of the admin permission hooks
NoObj == [kind |-> "None", id |-> 0]
\* the row of an EmergencyContact primary key that is not in the table
NoContact == [patient |-> 0, is_primary_contact |-> FALSE]

\* a request that is not inside EmergencyContact.save
NoSave == [c |-> 0, patient |-> 0, is_primary_contact |-> FALSE]

VARIABLES
    users,            \* auth.User rows (their primary keys)
    is_superuser,     \* User.is_superuser
    is_staff,         \* User.is_staff
    role,             \* UserProfile.role of the user's profile, or NoProfile
    groups,           \* User.groups (names of the groups the user is in)
    groupPerms,       \* Group.permissions, as <<action, model>> pairs
    patients,         \* Patient rows, keyed by the owning profile (OneToOne)
    assigned_doctor,  \* Patient.assigned_doctor (a profile key, 0 is NULL)
    contacts,         \* EmergencyContact rows by primary key
    resync,           \* position of the UserProfile.save in flight per user
    saving,           \* EmergencyContact.save calls between demote and write
    license_number,   \* UserProfile.license_number is not empty
    department        \* UserProfile.department is not empty

vars == <<users, is_superuser, is_staff, role, groups, groupPerms,
          patients, assigned_doctor, contacts, resync, saving,
          license_number, department>>

\* ---------------------------------------------------------------- helpers
\* hasattr(request.user, "profile")
hasattr_profile(u) == role[u] # NoProfile

\* UserProfile.objects.all()
profiles == {u \in users : hasattr_profile(u)}

\* Patient.user_profile: the OneToOne key of the Patient row
user_profile(p) == p

\* EmergencyContact.objects.all()
contact_rows == {c \in ContactIds : contacts[c].patient # 0}

\* role_to_group dictionary of UserProfile.assign_to_group
role_to_group(r) ==
    CASE r = "patient" -> "Patients"
      [] r = "doctor" -> "Doctors"
      [] r = "nurse" -> "Nurses"
      [] r = "pharmacy" -> "Pharmacy"
      [] r = "admin" -> "Administrators"
      [] OTHER -> NoGroup

Mut_assign_to_group(u, r, fault) ==
    LET g == role_to_group(r) IN
    IF g = NoGroup THEN groups
    ELSE [groups EXCEPT ![u] = @ \cup {g}]

\* UserProfile.assign_to_group: groups.clear(), Group get_or_create,
\* groups.add(group); an exception at any step is swallowed and leaves what
\* was written so far. fault names the step that raises ("none": no step
\* raises, "clear": before anything is written, "add": after the clear).
assign_to_group(u, r, fault) ==
    LET g == role_to_group(r) IN
    IF g = NoGroup \/ fault = "clear" THEN groups
    ELSE IF fault = "add" THEN [groups EXCEPT ![u] = {}]
    ELSE [groups EXCEPT ![u] = {g}]

\* ------------------------------------------------------------------- Init
Init ==
    /\ users = {}
    /\ is_superuser = [u \in Users |-> FALSE]
    /\ is_staff = [u \in Users |-> FALSE]
    /\ role = [u \in Users |-> NoProfile]
    /\ groups = [u \in Users |-> {}]
    /\ groupPerms = [g \in GroupNames |-> {}]
    /\ patients = {}
    /\ assigned_doctor = [u \in Users |-> 0]
    /\ contacts = [c \in ContactIds |-> NoContact]
    /\ resync = [u \in Users |-> "idle"]
    /\ saving = [k \in Savers |-> NoSave]
    /\ license_number = [u \in Users |-> FALSE]
    /\ department = [u \in Users |-> FALSE]

\* ---------------------------------------------------------------- actions
\* User.objects.create_user(...) / create_superuser(...): a new auth.User
\* with no profile and no groups (is_staff defaults to False).
CreateUser(u, su) ==
    /\ u \notin users
    /\ \A v \in Users : v < u => v \in users
    /\ users' = users \cup {u}
    /\ is_superuser' = [is_superuser EXCEPT ![u] = su]
    /\ UNCHANGED <<is_staff, role, groups, groupPerms, patients,
                   assigned_doctor, contacts,
                   resync, saving,
                   license_number, department>>

\* UserProfile.ensure_patient_record: Patient.objects.create for a patient
\* profile that has no patient_record yet (Patient.save accepts it because
\* the role is "patient"; the new row has no assigned doctor).
ensure_patient_record(u, r) ==
    IF r = "patient" /\ u \notin patients THEN patients \cup {u} ELSE patients

Mut_SaveProfile(u, r, fault) ==
    /\ u \in users
    /\ role' = IF fault = "none" THEN [role EXCEPT ![u] = r] ELSE role
    /\ groups' = assign_to_group(u, r, fault)
    /\ patients' = IF fault = "none" THEN ensure_patient_record(u, r)
                   ELSE patients
    /\ is_staff' = IF r = "patient" /\ fault = "none"
                   THEN [is_staff EXCEPT ![u] = TRUE]
                   ELSE is_staff
    /\ UNCHANGED <<users, is_superuser, groupPerms, assigned_doctor, contacts,
                   resync, saving,
                   license_number, department>>

\* UserProfile.save (create or role mutation): write the row, resync the
\* group, and for a patient create the Patient row and grant is_staff.
SaveProfile(u, r, fault) ==
    /\ u \in users
    /\ role' = [role EXCEPT ![u] = r]
    /\ groups' = assign_to_group(u, r, fault)
    /\ patients' = ensure_patient_record(u, r)
    /\ is_staff' = IF r = "patient" THEN [is_staff EXCEPT ![u] = TRUE]
                   ELSE is_staff
    /\ UNCHANGED <<users, is_superuser, groupPerms, assigned_doctor, contacts,
                   resync, saving,
                   license_number, department>>

\* CustomUserCreationForm.clean: no check for a patient; otherwise a
\* license number for doctor, nurse and pharmacy and a department for
\* doctor and nurse (lic, dept: the posted value is not empty).
CustomUserCreationForm_clean(r, dept, lic) ==
    \/ r = "patient"
    \/ /\ r \in {"doctor", "nurse", "pharmacy"} => lic
       /\ r \in {"doctor", "nurse"} => dept

\* CustomUserCreationForm: is_valid() and save(commit=True) for a new user.
\* An invalid form writes nothing. A valid one creates the user, gets or
\* creates its profile, copies role and department, stores the license
\* number for a non-patient (the field is dropped for a patient) and saves
\* the profile, which syncs the group.
CustomUserCreationForm_save(u, r, dept, lic) ==
    /\ u \notin users
    /\ \A v \in Users : v < u => v \in users
    /\ IF ~CustomUserCreationForm_clean(r, dept, lic)
       THEN UNCHANGED vars
       ELSE /\ users' = users \cup {u}
            /\ is_superuser' = [is_superuser EXCEPT ![u] = FALSE]
            /\ role' = [role EXCEPT ![u] = r]
            /\ department' = [department EXCEPT ![u] = dept]
            /\ license_number' = [license_number EXCEPT ![u] =
                                      IF r = "patient" THEN FALSE ELSE lic]
            /\ groups' = assign_to_group(u, r, "none")
            /\ patients' = ensure_patient_record(u, r)
            /\ is_staff' = IF r = "patient"
                           THEN [is_staff EXCEPT ![u] = TRUE]
                           ELSE is_staff
            /\ UNCHANGED <<groupPerms, assigned_doctor, contacts,
                           resync, saving>>

\* UserProfile.clean: a license number is demanded of doctor, nurse and
\* pharmacy only while the instance is being added.
UserProfile_clean(r, lic, adding) ==
    ~(r \in {"doctor", "nurse", "pharmacy"} /\ adding /\ ~lic)

\* UserProfileAdmin.save_model for the profile of user u posted with role
\* r, department dept and license number lic: obj.full_clean() and, when it
\* passes, obj.save(); a ValidationError goes to the form and nothing is
\* written. get_exclude keeps license_number off the form of a patient
\* profile (the stored object's role on a change, the posted role on an
\* add), so that field keeps its value.
UserProfileAdmin_save_model(u, r, dept, lic) ==
    LET adding == ~hasattr_profile(u)
        is_patient == IF adding THEN r = "patient" ELSE role[u] = "patient"
        new_lic == IF is_patient THEN license_number[u] ELSE lic
    IN  /\ u \in users
        /\ IF ~UserProfile_clean(r, new_lic, adding)
           THEN UNCHANGED vars
           ELSE /\ role' = [role EXCEPT ![u] = r]
                /\ department' = [department EXCEPT ![u] = dept]
                /\ license_number' = [license_number EXCEPT ![u] = new_lic]
                /\ groups' = assign_to_group(u, r, "none")
                /\ patients' = ensure_patient_record(u, r)
                /\ is_staff' = IF r = "patient"
                               THEN [is_staff EXCEPT ![u] = TRUE]
                               ELSE is_staff
                /\ UNCHANGED <<users, is_superuser, groupPerms,
                               assigned_doctor, contacts, resync, saving>>

\* UserProfile.save step by step, as the statements commit one after the
\* other when no transaction encloses the call. First step: super().save()
\* writes the row; assign_to_group is entered when the role has a group.
UserProfile_save_row(u, r) ==
    /\ u \in users
    /\ resync[u] = "idle"
    /\ role' = [role EXCEPT ![u] = r]
    /\ resync' = [resync EXCEPT ![u] =
                      IF role_to_group(r) = NoGroup THEN "finish" ELSE "clear"]
    /\ UNCHANGED <<users, is_superuser, is_staff, groups, groupPerms,
                   patients, assigned_doctor, contacts, saving,
                   license_number, department>>

\* assign_to_group: self.user.groups.clear(); when it raises the except
\* clause swallows the error and nothing was written.
groups_clear(u, raises) ==
    /\ resync[u] = "clear"
    /\ groups' = IF raises THEN groups ELSE [groups EXCEPT ![u] = {}]
    /\ resync' = [resync EXCEPT ![u] = IF raises THEN "finish" ELSE "add"]
    /\ UNCHANGED <<users, is_superuser, is_staff, role, groupPerms,
                   patients, assigned_doctor, contacts, saving,
                   license_number, department>>

\* assign_to_group: Group.objects.get_or_create(name) and
\* self.user.groups.add(group); when either raises the except clause
\* swallows the error and the cleared membership stays.
groups_add(u, raises) ==
    /\ resync[u] = "add"
    /\ groups' = IF raises THEN groups
                 ELSE [groups EXCEPT ![u] = {role_to_group(role[u])}]
    /\ resync' = [resync EXCEPT ![u] = "finish"]
    /\ UNCHANGED <<users, is_superuser, is_staff, role, groupPerms,
                   patients, assigned_doctor, contacts, saving,
                   license_number, department>>

\* UserProfile.save after assign_to_group: ensure_patient_record and the
\* is_staff grant for a patient.
UserProfile_save_end(u) ==
    /\ resync[u] = "finish"
    /\ patients' = ensure_patient_record(u, role[u])
    /\ is_staff' = IF role[u] = "patient" THEN [is_staff EXCEPT ![u] = TRUE]
                   ELSE is_staff
    /\ resync' = [resync EXCEPT ![u] = "idle"]
    /\ UNCHANGED <<users, is_superuser, role, groups, groupPerms,
                   assigned_doctor, contacts, saving,
                   license_number, department>>

\* Patient.save of an existing row with assigned_doctor set to d (0: NULL):
\* raises ValidationError, writing nothing, unless the owning profile has
\* role "patient".
SavePatient(p, d) ==
    /\ p \in patients
    /\ d \in profiles \cup {0}
    /\ IF role[user_profile(p)] # "patient"
       THEN UNCHANGED assigned_doctor
       ELSE assigned_doctor' = [assigned_doctor EXCEPT ![p] = d]
    /\ UNCHANGED <<users, is_superuser, is_staff, role, groups, groupPerms, patients, contacts,
                   resync, saving,
                   license_number, department>>

Mut_CreatePatient(u) ==
    /\ u \in profiles
    /\ patients' = patients \cup {u}
    /\ assigned_doctor' = IF u \in patients THEN assigned_doctor
                          ELSE [assigned_doctor EXCEPT ![u] = 0]
    /\ UNCHANGED <<users, is_superuser, is_staff, role, groups, groupPerms,
                   contacts, resync, saving,
                   license_number, department>>

\* Patient.save of a new instance whose user_profile is the profile of u
\* (Patient.objects.create): ValidationError, writing nothing, unless the
\* profile's role is "patient"; the OneToOne column rejects a second row
\* for the same profile.
CreatePatient(u) ==
    /\ u \in profiles
    /\ IF role[u] # "patient" \/ u \in patients
       THEN UNCHANGED <<patients, assigned_doctor,
                   license_number, department>>
       ELSE /\ patients' = patients \cup {u}
            /\ assigned_doctor' = [assigned_doctor EXCEPT ![u] = 0]
    /\ UNCHANGED <<users, is_superuser, is_staff, role, groups, groupPerms,
                   contacts, resync, saving,
                   license_number, department>>

\* Patient.delete of row p: its emergency contacts cascade
\* (EmergencyContact.patient on_delete=CASCADE).
DeletePatient(p) ==
    /\ p \in patients
    /\ patients' = patients \ {p}
    /\ assigned_doctor' = [assigned_doctor EXCEPT ![p] = 0]
    /\ contacts' = [c \in ContactIds |->
                       IF contacts[c].patient = p THEN NoContact
                       ELSE contacts[c]]
    /\ UNCHANGED <<users, is_superuser, is_staff, role, groups, groupPerms,
                   resync, saving,
                   license_number, department>>

\* UserProfile.delete of the profile of user u: the Patient row cascades
\* (Patient.user_profile on_delete=CASCADE) and its contacts with it
\* (EmergencyContact.patient on_delete=CASCADE); patients assigned to the
\* profile get assigned_doctor NULL (SET_NULL). The auth.User row, its
\* groups and its is_staff flag are not touched.
DeleteProfile(u) ==
    /\ u \in profiles
    /\ role' = [role EXCEPT ![u] = NoProfile]
    /\ patients' = patients \ {u}
    /\ contacts' = [c \in ContactIds |->
                       IF contacts[c].patient = u THEN NoContact
                       ELSE contacts[c]]
    /\ assigned_doctor' = [p \in Users |->
                              IF p = u \/ assigned_doctor[p] = u THEN 0
                              ELSE assigned_doctor[p]]
    /\ license_number' = [license_number EXCEPT ![u] = FALSE]
    /\ department' = [department EXCEPT ![u] = FALSE]
    /\ UNCHANGED <<users, is_superuser, is_staff, groups, groupPerms,
                   resync, saving>>

Mut_assign_all_unassigned(name) ==
    IF name \notin users THEN assigned_doctor
    ELSE IF ~hasattr_profile(name) THEN assigned_doctor
    ELSE IF role[name] # "doctor" THEN assigned_doctor
    ELSE [p \in Users |-> IF p \in patients THEN name ELSE assigned_doctor[p]]

\* assign_patients --assign-all-unassigned --doctor-username name
assign_all_unassigned(name) ==
    IF name \notin users THEN assigned_doctor            \* User.DoesNotExist
    ELSE IF ~hasattr_profile(name) THEN assigned_doctor  \* no profile: raises
    ELSE IF role[name] # "doctor" THEN assigned_doctor   \* not a doctor
    ELSE [p \in Users |->
            IF p \in patients /\ assigned_doctor[p] = 0 THEN name
            ELSE assigned_doctor[p]]

AssignAllUnassigned(name) ==
    /\ assigned_doctor' = assign_all_unassigned(name)
    /\ UNCHANGED <<users, is_superuser, is_staff, role, groups, groupPerms, patients, contacts,
                   resync, saving,
                   license_number, department>>

Mut_demote_others(c, p, prim) == contacts

\* EmergencyContact.save, first half: when the contact being saved is
\* primary, every other primary contact of the same patient is demoted.
demote_others(c, p, prim) ==
    IF prim
    THEN [x \in ContactIds |->
            IF x # c /\ contacts[x].patient = p
                     /\ contacts[x].is_primary_contact
            THEN [contacts[x] EXCEPT !.is_primary_contact = FALSE]
            ELSE contacts[x]]
    ELSE contacts

\* EmergencyContact.save (create with the next free key, or update of row c)
SaveContact(c, p, prim) ==
    /\ p \in patients
    /\ \/ c \in contact_rows
       \/ /\ c \notin contact_rows
          /\ \A x \in ContactIds : x < c => x \in contact_rows
    /\ contacts' = [demote_others(c, p, prim) EXCEPT
                       ![c] = [patient |-> p, is_primary_contact |-> prim]]
    /\ UNCHANGED <<users, is_superuser, is_staff, role, groups, groupPerms, patients, assigned_doctor,
                   resync, saving,
                   license_number, department>>

\* EmergencyContact.save, first statement, run by request k for the
\* instance with primary key c (0: a new instance, pk None), patient p and
\* is_primary_contact prim: the filter().exclude(pk).update() demotion.
EmergencyContact_save_demote(k, c, p, prim) ==
    /\ saving[k] = NoSave
    /\ p \in patients
    /\ c \in contact_rows \cup {0}
    /\ contacts' = demote_others(c, p, prim)
    /\ saving' = [saving EXCEPT ![k] =
                      [c |-> c, patient |-> p, is_primary_contact |-> prim]]
    /\ UNCHANGED <<users, is_superuser, is_staff, role, groups, groupPerms,
                   patients, assigned_doctor, resync,
                   license_number, department>>

\* EmergencyContact.save, second statement, of request k: super().save()
\* writes the instance's row (INSERT with the next free key for a new one).
EmergencyContact_save_write(k) ==
    /\ saving[k] # NoSave
    /\ \E key \in ContactIds :
           /\ IF saving[k].c = 0
              THEN /\ key \notin contact_rows
                   /\ \A x \in ContactIds : x < key => x \in contact_rows
              ELSE key = saving[k].c
           /\ contacts' = [contacts EXCEPT ![key] =
                  [patient |-> saving[k].patient,
                   is_primary_contact |-> saving[k].is_primary_contact]]
    /\ saving' = [saving EXCEPT ![k] = NoSave]
    /\ UNCHANGED <<users, is_superuser, is_staff, role, groups, groupPerms,
                   patients, assigned_doctor, resync,
                   license_number, department>>

\* groups_permissions table of the setup_groups command
groups_permissions(g) ==
    CASE g = "Patients" ->
            {<<"view", "userprofile">>, <<"change", "userprofile">>}
      [] g = "Doctors" ->
            {<<"view", "userprofile">>, <<"change", "userprofile">>,
             <<"add", "userprofile">>}
      [] g = "Nurses" ->
            {<<"view", "userprofile">>, <<"change", "userprofile">>}
      [] g = "Pharmacy" -> {<<"view", "userprofile">>}
      [] g = "Administrators" ->
            {<<"view", "userprofile">>, <<"add", "userprofile">>,
             <<"change", "userprofile">>, <<"delete", "userprofile">>}

\* setup_groups: get_or_create the five groups, reset their permissions to
\* the table, then assign_users_to_groups (clear + add for every profile
\* whose role maps to a group).
SetupGroups ==
    /\ groupPerms' = [g \in GroupNames |-> groups_permissions(g)]
    /\ groups' = [u \in Users |->
                    IF u \in profiles /\ role_to_group(role[u]) # NoGroup
                    THEN {role_to_group(role[u])}
                    ELSE groups[u]]
    /\ UNCHANGED <<users, is_superuser, is_staff, role, patients,
                   assigned_doctor, contacts,
                   resync, saving,
                   license_number, department>>

\* fix_user_groups [--dry-run]: for every profile whose role has a group
\* and whose user is not in that group, assign_to_group (skipped, and only
\* reported, under --dry-run); a user already in the group is left alone.
FixUserGroups(dry_run) ==
    /\ groups' = [u \in Users |->
                    LET expected_group == role_to_group(role[u])
                        current_groups == groups[u]
                    IN  IF /\ u \in profiles
                           /\ expected_group # NoGroup
                           /\ expected_group \notin current_groups
                           /\ ~dry_run
                        THEN assign_to_group(u, role[u], "none")[u]
                        ELSE groups[u]]
    /\ UNCHANGED <<users, is_superuser, is_staff, role, groupPerms, patients,
                   assigned_doctor, contacts, resync, saving,
                   license_number, department>>

\* permissions_to_add list of the setup_patient_permissions command
permissions_to_add ==
    {<<"view", "patient">>, <<"change", "patient">>,
     <<"view", "emergencycontact">>, <<"add", "emergencycontact">>,
     <<"change", "emergencycontact">>, <<"delete", "emergencycontact">>}

\* setup_patient_permissions [--dry-run]: get_or_create the Patients group
\* (also in a dry run) and add the listed permissions to it.
SetupPatientPermissions(dry_run) ==
    /\ groupPerms' = IF dry_run THEN groupPerms
                     ELSE [groupPerms EXCEPT
                              !["Patients"] = @ \cup permissions_to_add]
    /\ UNCHANGED <<users, is_superuser, is_staff, role, groups, patients,
                   assigned_doctor, contacts,
                   resync, saving,
                   license_number, department>>

\* ------------------------------------------- framework permission defaults
\* User.has_perm through the model backend: superusers have every
\* permission, other users the permissions of their groups.
has_perm(u, action, model) ==
    \/ is_superuser[u]
    \/ \E g \in groups[u] : <<action, model>> \in groupPerms[g]

\* admin.ModelAdmin.has_<action>_permission, the super() the mixins fall back
\* to and the whole of EmergencyContactAdmin's permission checks.
ModelAdmin_has_permission(u, action, model) ==
    IF action = "view"
    THEN has_perm(u, "view", model) \/ has_perm(u, "change", model)
    ELSE has_perm(u, action, model)

\* the app a model belongs to: User is django.contrib.auth's, the three
\* governed models are core's
app_label(model) == IF model = "user" THEN "auth" ELSE "core"

\* User.has_module_perms: a superuser, or any permission of the app
has_module_perms(u, label) ==
    \/ is_superuser[u]
    \/ \E g \in groups[u] :
           \E perm \in groupPerms[g] : app_label(perm[2]) = label

\* admin.ModelAdmin.has_module_permission
ModelAdmin_has_module_permission(u, model) ==
    has_module_perms(u, app_label(model))

\* ----------------------------------------------------------------- mixins
\* RoleBasedAdminMixin.get_queryset; filtered is what the class's
\* filter_queryset_by_role returns for qs.
RoleBasedAdminMixin_get_queryset(u, qs, filtered) ==
    IF is_superuser[u] THEN qs
    ELSE IF ~hasattr_profile(u) THEN {}
    ELSE IF role[u] = "admin" THEN qs
    ELSE filtered

\* PatientAccessMixin.filter_queryset_by_role (model: the queryset's model)
PatientAccessMixin_filter_queryset_by_role(u, qs, r, model) ==
    IF r = "patient"
    THEN IF model = "Patient" THEN {p \in qs : user_profile(p) = u}
         ELSE IF model = "UserProfile" THEN {p \in qs : p = u}
         ELSE {}
    ELSE qs

Mut_check_owner(u, obj, action) ==
    IF ~hasattr_profile(u) THEN FALSE
    ELSE IF role[u] = "patient"
    THEN IF action = "delete" THEN FALSE ELSE TRUE
    ELSE TRUE

Mut_check_delete(u, obj, action) ==
    IF ~hasattr_profile(u) THEN FALSE
    ELSE IF role[u] = "patient"
    THEN IF obj # NoObj
         THEN IF obj.kind = "Patient" THEN user_profile(obj.id) = u
              ELSE IF obj.kind = "UserProfile" THEN obj.id = u
              ELSE FALSE
         ELSE TRUE
    ELSE TRUE

Mut_check_add(u, obj, action) ==
    IF ~hasattr_profile(u) THEN FALSE
    ELSE IF role[u] = "patient"
    THEN IF action = "delete" THEN FALSE
         ELSE IF obj # NoObj
         THEN IF obj.kind = "Patient" THEN user_profile(obj.id) = u
              ELSE IF obj.kind = "UserProfile" THEN obj.id = u
              ELSE FALSE
         ELSE action # "add"
    ELSE TRUE

\* PatientAccessMixin.check_role_permission (with the base class's profile
\* check it starts with). obj.kind tells which relation the object has:
\* a Patient has user_profile, a UserProfile has user.
PatientAccessMixin_check_role_permission(u, obj, action) ==
    IF ~hasattr_profile(u) THEN FALSE
    ELSE IF role[u] = "patient"
    THEN IF action = "delete" THEN FALSE
         ELSE IF obj # NoObj
         THEN IF obj.kind = "Patient" THEN user_profile(obj.id) = u
              ELSE IF obj.kind = "UserProfile" THEN obj.id = u
              ELSE FALSE
         ELSE TRUE
    ELSE TRUE

\* RoleBasedAdminMixin.has_view/change/add/delete_permission of a class
\* that uses PatientAccessMixin (has_add_permission passes obj = None).
RoleBasedAdminMixin_has_permission(u, obj, action, model) ==
    IF is_superuser[u] THEN TRUE
    ELSE IF ~hasattr_profile(u) THEN FALSE
    ELSE IF role[u] \in Roles
    THEN PatientAccessMixin_check_role_permission(
             u, IF action = "add" THEN NoObj ELSE obj, action)
    ELSE ModelAdmin_has_permission(u, action, model)

\* PatientAccessMixin.has_add_permission
PatientAccessMixin_has_add_permission(u, model) ==
    IF is_superuser[u] THEN TRUE
    ELSE IF hasattr_profile(u) /\ role[u] = "admin" THEN TRUE
    ELSE RoleBasedAdminMixin_has_permission(u, NoObj, "add", model)

\* PatientAccessMixin.has_delete_permission
PatientAccessMixin_has_delete_permission(u, obj, model) ==
    IF is_superuser[u] THEN TRUE
    ELSE IF hasattr_profile(u) /\ role[u] = "admin" THEN TRUE
    ELSE RoleBasedAdminMixin_has_permission(u, obj, "delete", model)

\* -------------------------------------------------------------- UserAdmin
Mut_admin_only(u) == hasattr_profile(u)

\* AdminOnlyMixin.check_role_permission
AdminOnlyMixin_check_role_permission(u) ==
    IF is_superuser[u] THEN TRUE
    ELSE IF ~hasattr_profile(u) THEN FALSE
    ELSE role[u] = "admin"

\* UserAdmin.has_view/add/change/delete_permission: the hooks of
\* RoleBasedAdminMixin with AdminOnlyMixin's role check
UserAdmin_has_permission(u, action) ==
    IF is_superuser[u] THEN TRUE
    ELSE IF ~hasattr_profile(u) THEN FALSE
    ELSE IF role[u] \in Roles THEN AdminOnlyMixin_check_role_permission(u)
    ELSE ModelAdmin_has_permission(u, action, "user")

\* UserAdmin.has_module_permission
UserAdmin_has_module_permission(u) ==
    IF is_superuser[u] THEN TRUE
    ELSE IF hasattr_profile(u) /\ role[u] = "admin" THEN TRUE
    ELSE ModelAdmin_has_module_permission(u, "user")

\* UserAdmin.get_queryset over RoleBasedAdminMixin.get_queryset (whose
\* default filter_queryset_by_role returns the queryset as it is)
UserAdmin_get_queryset(u) ==
    LET qs == RoleBasedAdminMixin_get_queryset(u, users, users)
    IN  IF is_superuser[u] THEN qs
        ELSE IF hasattr_profile(u) /\ role[u] = "admin" THEN qs
        ELSE {}

\* The User change form submitted by a with the group selection gs and the
\* profile inline untouched: existing users get the framework's fieldsets,
\* which carry the groups field, and an unchanged inline form is not saved,
\* so UserProfile.save does not run.
UserAdmin_change_groups(a, u, gs) ==
    /\ a \in users /\ u \in users
    /\ UserAdmin_has_permission(a, "change")
    /\ groups' = [groups EXCEPT ![u] = gs]
    /\ UNCHANGED <<users, is_superuser, is_staff, role, groupPerms, patients,
                   assigned_doctor, contacts, resync, saving,
                   license_number, department>>

\* ------------------------------------------------------- UserProfileAdmin
ProfileObj(r) == [kind |-> "UserProfile", id |-> r]
PatientObj(p) == [kind |-> "Patient", id |-> p]

Mut_filter_none(u, qs, r) ==
    IF r = "admin" THEN qs ELSE {}

\* UserProfileAdmin.filter_queryset_by_role
UserProfileAdmin_filter_queryset_by_role(u, qs, r) ==
    IF r = "admin" THEN qs ELSE {p \in qs : p = u}

\* UserProfileAdmin.get_queryset over super().get_queryset(request)
UserProfileAdmin_get_queryset(u) ==
    LET qs == RoleBasedAdminMixin_get_queryset(u, profiles,
                  UserProfileAdmin_filter_queryset_by_role(u, profiles, role[u]))
    IN  IF is_superuser[u] THEN qs
        ELSE IF hasattr_profile(u)
        THEN IF role[u] = "admin" THEN qs ELSE {p \in qs : p = u}
        ELSE {}

\* UserProfileAdmin.has_view_permission (inherited from RoleBasedAdminMixin)
UserProfileAdmin_has_view_permission(u, r) ==
    RoleBasedAdminMixin_has_permission(u, ProfileObj(r), "view", "userprofile")

\* UserProfileAdmin.has_change_permission (inherited)
UserProfileAdmin_has_change_permission(u, r) ==
    RoleBasedAdminMixin_has_permission(u, ProfileObj(r), "change", "userprofile")

Mut_profile_add(u) == PatientAccessMixin_has_add_permission(u, "userprofile")

\* UserProfileAdmin.has_add_permission
UserProfileAdmin_has_add_permission(u) ==
    IF ~PatientAccessMixin_has_add_permission(u, "userprofile") THEN FALSE
    ELSE IF is_superuser[u] THEN TRUE
    ELSE IF hasattr_profile(u) THEN role[u] = "admin"
    ELSE FALSE

\* UserProfileAdmin.has_delete_permission
UserProfileAdmin_has_delete_permission(u, r) ==
    IF ~PatientAccessMixin_has_delete_permission(u, ProfileObj(r), "userprofile")
    THEN FALSE
    ELSE IF is_superuser[u] THEN TRUE
    ELSE IF hasattr_profile(u) THEN role[u] = "admin"
    ELSE FALSE

\* UserProfileAdmin.readonly_fields
UserProfileAdmin_readonly_fields == {"created_at", "updated_at"}

Mut_profile_readonly(u, obj) ==
    IF ~is_superuser[u] /\ hasattr_profile(u) /\ role[u] = "patient"
    THEN UserProfileAdmin_readonly_fields \cup {"user", "role", "department"}
    ELSE UserProfileAdmin_readonly_fields

\* UserProfileAdmin.get_readonly_fields (obj is NoObj on the add form)
UserProfileAdmin_get_readonly_fields(u, obj) ==
    IF ~is_superuser[u] /\ hasattr_profile(u)
    THEN IF role[u] = "patient"
         THEN UserProfileAdmin_readonly_fields
                  \cup {"user", "role", "department"}
                  \cup (IF obj # NoObj /\ role[obj.id] # "patient"
                        THEN {"license_number"} ELSE {})
         ELSE IF role[u] # "admin"
         THEN UserProfileAdmin_readonly_fields \cup {"role"}
         ELSE UserProfileAdmin_readonly_fields
    ELSE UserProfileAdmin_readonly_fields

\* UserProfileInline.get_readonly_fields
UserProfileInline_get_readonly_fields(u) ==
    IF ~is_superuser[u] /\ hasattr_profile(u)
    THEN IF role[u] # "admin" THEN {"role"} ELSE {}
    ELSE {}

\* UserProfileAdmin.has_module_permission (not overridden: framework default)
UserProfileAdmin_has_module_permission(u) ==
    ModelAdmin_has_module_permission(u, "userprofile")

\* ----------------------------------------------------------- PatientAdmin
\* PatientAdmin.has_module_permission (not overridden: framework default)
PatientAdmin_has_module_permission(u) ==
    ModelAdmin_has_module_permission(u, "patient")

\* PatientAdmin.get_queryset over super().get_queryset(request)
PatientAdmin_get_queryset(u) ==
    LET qs == RoleBasedAdminMixin_get_queryset(u, patients,
                  PatientAccessMixin_filter_queryset_by_role(
                      u, patients, role[u], "Patient"))
    IN  IF is_superuser[u] THEN qs
        ELSE IF ~hasattr_profile(u) THEN {}
        ELSE IF role[u] = "admin" THEN qs
        ELSE IF role[u] = "patient" THEN {p \in qs : user_profile(p) = u}
        ELSE IF role[u] \in {"doctor", "nurse", "pharmacy"} THEN qs
        ELSE {}

\* PatientAdmin.has_view_permission (inherited from RoleBasedAdminMixin)
PatientAdmin_has_view_permission(u, p) ==
    RoleBasedAdminMixin_has_permission(u, PatientObj(p), "view", "patient")

\* PatientAdmin.has_change_permission
PatientAdmin_has_change_permission(u, p) ==
    IF ~RoleBasedAdminMixin_has_permission(u, PatientObj(p), "change", "patient")
    THEN FALSE
    ELSE IF hasattr_profile(u) /\ role[u] = "patient" /\ user_profile(p) # u
    THEN FALSE
    ELSE TRUE

\* PatientAdmin.has_add_permission
PatientAdmin_has_add_permission(u) ==
    PatientAccessMixin_has_add_permission(u, "patient")

\* PatientAdmin.has_delete_permission
PatientAdmin_has_delete_permission(u, p) ==
    PatientAccessMixin_has_delete_permission(u, PatientObj(p), "patient")

\* PatientAdmin.readonly_fields
PatientAdmin_readonly_fields == {"medical_id", "age", "created_at", "updated_at"}

\* the fields named in PatientAdmin.fieldsets (what the change form shows)
PatientAdmin_fieldsets ==
    {"user_profile", "medical_id", "date_of_birth", "gender", "blood_type",
     "insurance_number", "phone_primary", "phone_secondary", "email_personal",
     "address_line1", "address_line2", "city", "state", "postal_code",
     "country", "created_at", "updated_at"}

\* Patient._meta.fields: the columns of models.py and the assigned_doctor
\* column of migration 0003
Patient_meta_fields ==
    {"id", "user_profile", "medical_id", "date_of_birth", "gender",
     "blood_type", "insurance_number", "address_line1", "address_line2",
     "city", "state", "postal_code", "country", "phone_primary",
     "phone_secondary", "email_personal", "created_at", "updated_at",
     "assigned_doctor"}

\* PatientAdmin.get_readonly_fields for the Patient row p
PatientAdmin_get_readonly_fields(u, p) ==
    IF hasattr_profile(u) /\ role[u] = "patient"
    THEN IF user_profile(p) # u THEN Patient_meta_fields
         ELSE PatientAdmin_readonly_fields
                  \cup {"user_profile", "date_of_birth", "gender"}
    ELSE PatientAdmin_readonly_fields

\* -------------------------------------------------- EmergencyContactAdmin
Mut_contacts_unfiltered(u) ==
    IF is_superuser[u] THEN contact_rows
    ELSE IF ~hasattr_profile(u) THEN {}
    ELSE IF role[u] \in Roles THEN contact_rows
    ELSE {}

\* EmergencyContactAdmin.get_queryset
EmergencyContactAdmin_get_queryset(u) ==
    IF is_superuser[u] THEN contact_rows
    ELSE IF ~hasattr_profile(u) THEN {}
    ELSE IF role[u] = "admin" THEN contact_rows
    ELSE IF role[u] = "patient"
    THEN {c \in contact_rows : user_profile(contacts[c].patient) = u}
    ELSE IF role[u] \in {"doctor", "nurse", "pharmacy"} THEN contact_rows
    ELSE {}

\* EmergencyContactAdmin.has_view_permission: the class overrides no
\* permission hook, so the framework default decides.
EmergencyContactAdmin_has_view_permission(u, c) ==
    ModelAdmin_has_permission(u, "view", "emergencycontact")

\* EmergencyContactAdmin.has_change_permission (framework default)
EmergencyContactAdmin_has_change_permission(u, c) ==
    ModelAdmin_has_permission(u, "change", "emergencycontact")

\* EmergencyContactAdmin.has_add_permission (framework default)
EmergencyContactAdmin_has_add_permission(u) ==
    ModelAdmin_has_permission(u, "add", "emergencycontact")

\* EmergencyContactAdmin.has_delete_permission (framework default)
EmergencyContactAdmin_has_delete_permission(u, c) ==
    ModelAdmin_has_permission(u, "delete", "emergencycontact")

\* ------------------------------------------------------------------- Next
\* Accounts: user creation and profile saves (creation and role mutation)
Accounts ==
    \/ \E u \in Users, su \in BOOLEAN : CreateUser(u, su)
    \/ \E u \in Users, r \in Roles : SaveProfile(u, r, "none")

\* Accounts and the two permission set-up commands
Next ==
    \/ Accounts
    \/ SetupGroups
    \/ \E dry_run \in BOOLEAN : SetupPatientPermissions(dry_run)

Spec == Init /\ [][Next]_vars

\* Accounts and the doctor assignment of patients
NextAssign ==
    \/ Accounts
    \/ \E p \in Users, d \in Users \cup {0} : SavePatient(p, d)
    \/ \E name \in Users : AssignAllUnassigned(name)

SpecAssign == Init /\ [][NextAssign]_vars

\* Patient accounts and their emergency contacts
NextContacts ==
    \/ \E u \in Users : CreateUser(u, FALSE)
    \/ \E u \in Users : SaveProfile(u, "patient", "none")
    \/ \E c \in ContactIds, p \in Users, prim \in BOOLEAN : SaveContact(c, p, prim)

SpecContacts == Init /\ [][NextContacts]_vars

\* Accounts of every kind, the two set-up commands and emergency contacts
NextAccess ==
    \/ \E u \in Users, su \in BOOLEAN : CreateUser(u, su)
    \/ \E u \in Users, r \in Roles : SaveProfile(u, r, "none")
    \/ SetupGroups
    \/ SetupPatientPermissions(FALSE)
    \/ \E c \in ContactIds, p \in Users : SaveContact(c, p, FALSE)

SpecAccess == Init /\ [][NextAccess]_vars

\* Profiles saved with any stored role value, profile deletion, the two
\* set-up commands and emergency contacts
NextLifecycle ==
    \/ \E u \in Users : CreateUser(u, FALSE)
    \/ \E u \in Users, r \in {"patient", "doctor", UnknownRole} :
           SaveProfile(u, r, "none")
    \/ \E u \in Users : DeleteProfile(u)
    \/ SetupGroups
    \/ SetupPatientPermissions(FALSE)
    \/ \E c \in ContactIds, p \in Users : SaveContact(c, p, FALSE)

SpecLifecycle == Init /\ [][NextLifecycle]_vars

\* Profile saves whose statements interleave with other requests
NextResync ==
    \/ \E u \in Users : CreateUser(u, FALSE)
    \/ \E u \in Users, r \in {"patient", "nurse"} : UserProfile_save_row(u, r)
    \/ \E u \in Users, raises \in BOOLEAN : groups_clear(u, raises)
    \/ \E u \in Users, raises \in BOOLEAN : groups_add(u, raises)
    \/ \E u \in Users : UserProfile_save_end(u)

SpecResync == Init /\ [][NextResync]_vars

\* Patient accounts and emergency-contact saves of concurrent requests
NextConcurrent ==
    \/ \E u \in Users : CreateUser(u, FALSE)
    \/ \E u \in Users : SaveProfile(u, "patient", "none")
    \/ \E k \in Savers, c \in ContactIds \cup {0}, p \in Users, prim \in BOOLEAN :
           EmergencyContact_save_demote(k, c, p, prim)
    \/ \E k \in Savers : EmergencyContact_save_write(k)

SpecConcurrent == Init /\ [][NextConcurrent]_vars

\* Profile saves during which a statement of the group sync may raise
NextFault ==
    \/ \E u \in Users : CreateUser(u, FALSE)
    \/ \E u \in Users, r \in {"patient", "nurse", "admin"},
          fault \in {"none", "clear", "add"} : SaveProfile(u, r, fault)

SpecFault == Init /\ [][NextFault]_vars

\* Group memberships drifting from the role (a failed group sync, an
\* administrator editing a user's groups) and the repair command
NextGroups ==
    \/ \E u \in Users : CreateUser(u, FALSE)
    \/ \E u \in Users, r \in {"patient", "admin"},
          fault \in {"none", "clear", "add"} : SaveProfile(u, r, fault)
    \/ \E a, u \in Users, gs \in SUBSET {"Patients", "Administrators"} :
           UserAdmin_change_groups(a, u, gs)
    \/ \E dry_run \in BOOLEAN : FixUserGroups(dry_run)

SpecGroups == Init /\ [][NextGroups]_vars

\* Patient and doctor profiles, Patient rows and their doctor assignment,
\* with deletion of profiles and of Patient rows
NextRecords ==
    \/ \E u \in Users : CreateUser(u, FALSE)
    \/ \E u \in Users, r \in {"patient", "doctor"} : SaveProfile(u, r, "none")
    \/ \E u \in Users : CreatePatient(u)
    \/ \E p \in Users, d \in Users \cup {0} : SavePatient(p, d)
    \/ \E name \in Users : AssignAllUnassigned(name)
    \/ \E p \in Users : DeletePatient(p)
    \/ \E u \in Users : DeleteProfile(u)

SpecRecords == Init /\ [][NextRecords]_vars

\* Profiles created by the user creation form, by the profile admin and by
\* a plain save, and changed by the profile admin
NextFields ==
    \/ \E u \in Users : CreateUser(u, FALSE)
    \/ \E u \in Users, r \in Roles, dept, lic \in BOOLEAN :
           CustomUserCreationForm_save(u, r, dept, lic)
    \/ \E u \in Users, r \in Roles, dept, lic \in BOOLEAN :
           UserProfileAdmin_save_model(u, r, dept, lic)
    \/ \E u \in Users, r \in Roles : SaveProfile(u, r, "none")

SpecFields == Init /\ [][NextFields]_vars

\* ----------------------------------------------------------------- claims
NonSuper(u) == u \in users /\ ~is_superuser[u]

\* C1: for every principal and every record of a governed type, the record
\* is in the scoped listing of its type iff the object-level view check
\* allows it.
C1_ScopeAuthorizeEquivalence ==
    \A u \in users :
        /\ \A r \in profiles :
               (r \in UserProfileAdmin_get_queryset(u))
                   <=> UserProfileAdmin_has_view_permission(u, r)
        /\ \A p \in patients :
               (p \in PatientAdmin_get_queryset(u))
                   <=> PatientAdmin_has_view_permission(u, p)
        /\ \A c \in contact_rows :
               (c \in EmergencyContactAdmin_get_queryset(u))
                   <=> EmergencyContactAdmin_has_view_permission(u, c)

\* C2: after any sequence of profile creations and role mutations saved
\* through UserProfile.save, the principal is in exactly one group, the one
\* mapped from its current role.
C2_SingleGroup ==
    \A u \in profiles :
        /\ role[u] = "patient" => groups[u] = {"Patients"}
        /\ role[u] = "doctor" => groups[u] = {"Doctors"}
        /\ role[u] = "nurse" => groups[u] = {"Nurses"}
        /\ role[u] = "pharmacy" => groups[u] = {"Pharmacy"}
        /\ role[u] = "admin" => groups[u] = {"Administrators"}

\* A principal created as patient (it still has its Patient row) whose role
\* was mutated to nurse and who is now in the Nurses group.
C2_Witness ==
    \E u \in profiles :
        role[u] = "nurse" /\ u \in patients /\ groups[u] = {"Nurses"}

primary_contacts(p) ==
    {c \in contact_rows :
        contacts[c].patient = p /\ contacts[c].is_primary_contact}

AtMostOnePrimary == \A p \in Users : Cardinality(primary_contacts(p)) <= 1

\* C3: after every EmergencyContact save at most one contact of a patient is
\* primary, and saving a contact as primary leaves it primary and every
\* other contact of the same patient non-primary.
C3_PrimaryContactUnique ==
    [][ /\ AtMostOnePrimary'
        /\ \A c \in ContactIds, p \in Users :
              SaveContact(c, p, TRUE) =>
                  /\ contacts'[c] = [patient |-> p, is_primary_contact |-> TRUE]
                  /\ \A x \in ContactIds \ {c} :
                        contacts'[x].patient = p
                            => ~contacts'[x].is_primary_contact
      ]_vars

\* Two contacts of one patient, the later one primary and the earlier not.
C3_Witness ==
    \E c1, c2 \in contact_rows :
        /\ c1 < c2
        /\ contacts[c1].patient = contacts[c2].patient
        /\ ~contacts[c1].is_primary_contact
        /\ contacts[c2].is_primary_contact

\* C4: a non-superuser doctor is listed exactly the patients assigned to
\* that doctor, and exactly the emergency contacts of those patients.
C4_DoctorScopedByAssignment ==
    \A d \in users :
        (NonSuper(d) /\ role[d] = "doctor") =>
            /\ PatientAdmin_get_queryset(d)
                   = {p \in patients : assigned_doctor[p] = d}
            /\ EmergencyContactAdmin_get_queryset(d)
                   = {c \in contact_rows :
                         assigned_doctor[contacts[c].patient] = d}

\* C5: a non-superuser patient is denied delete on its own Patient record.
C5_PatientSelfDeleteDenied ==
    \A u \in users :
        (NonSuper(u) /\ role[u] = "patient") =>
            \A p \in patients :
                user_profile(p) = u => ~PatientAdmin_has_delete_permission(u, p)

C5_Witness ==
    \E u \in users : NonSuper(u) /\ role[u] = "patient" /\ u \in patients

C7_PatientOwnRecordOnly ==
    \A u \in users :
        (NonSuper(u) /\ role[u] = "patient") =>
            \A p \in patients :
                /\ PatientAdmin_has_view_permission(u, p) <=> user_profile(p) = u
                /\ PatientAdmin_has_change_permission(u, p) <=> user_profile(p) = u
                /\ user_profile(p) # u => ~PatientAdmin_has_delete_permission(u, p)

C7_Witness ==
    \E u \in users, p \in patients :
        NonSuper(u) /\ role[u] = "patient" /\ u \in patients /\ p # u

\* C8: for a non-superuser principal with role patient, doctor, nurse or
\* pharmacy and any Profile record, view and change are allowed iff the
\* record is the principal's own profile.
C8_ProfileOwnerOnly ==
    \A u \in users :
        (NonSuper(u) /\ role[u] \in Roles \ {"admin"}) =>
            \A r \in profiles :
                /\ UserProfileAdmin_has_view_permission(u, r) <=> r = u
                /\ UserProfileAdmin_has_change_permission(u, r) <=> r = u

\* C9: add and delete on Profile records are denied to every non-superuser
\* principal that is not an admin, a principal without a profile included.
C9_ProfileAddDeleteAdminOnly ==
    \A u \in users :
        (NonSuper(u) /\ role[u] # "admin") =>
            /\ ~UserProfileAdmin_has_add_permission(u)
            /\ \A r \in profiles : ~UserProfileAdmin_has_delete_permission(u, r)

C9_Witness ==
    \E u, v \in users, r \in profiles :
        /\ NonSuper(u) /\ role[u] = "doctor" /\ r # u
        /\ NonSuper(v) /\ ~hasattr_profile(v)

\* C10: a non-superuser principal with a non-admin role is listed exactly
\* its own Profile; admins and superusers are listed every Profile.
C10_ProfileListing ==
    \A u \in users :
        /\ (NonSuper(u) /\ hasattr_profile(u) /\ role[u] # "admin")
               => UserProfileAdmin_get_queryset(u) = {u}
        /\ (is_superuser[u] \/ role[u] = "admin")
               => UserProfileAdmin_get_queryset(u) = profiles

C10_Witness ==
    \E u, v \in profiles :
        /\ NonSuper(u) /\ role[u] = "nurse"
        /\ NonSuper(v) /\ role[v] = "admin"
        /\ Cardinality(profiles) = MaxUsers

\* C11: a non-superuser patient is allowed view, change, add and delete on
\* the emergency contacts of its own Patient record and denied view, change
\* and delete on every contact of another profile's Patient record.
C11_PatientOwnContacts ==
    \A u \in users :
        (NonSuper(u) /\ role[u] = "patient") =>
            \A c \in contact_rows :
                IF user_profile(contacts[c].patient) = u
                THEN /\ EmergencyContactAdmin_has_view_permission(u, c)
                     /\ EmergencyContactAdmin_has_change_permission(u, c)
                     /\ EmergencyContactAdmin_has_add_permission(u)
                     /\ EmergencyContactAdmin_has_delete_permission(u, c)
                ELSE /\ ~EmergencyContactAdmin_has_view_permission(u, c)
                     /\ ~EmergencyContactAdmin_has_change_permission(u, c)
                     /\ ~EmergencyContactAdmin_has_delete_permission(u, c)

\* C12: a non-superuser patient is listed exactly the Patient record whose
\* user_profile is its own profile and exactly the emergency contacts of
\* that record, whatever other patients and contacts exist.
C12_PatientListing ==
    \A u \in users :
        (NonSuper(u) /\ role[u] = "patient") =>
            /\ PatientAdmin_get_queryset(u)
                   = {p \in patients : user_profile(p) = u}
            /\ EmergencyContactAdmin_get_queryset(u)
                   = {c \in contact_rows :
                         user_profile(contacts[c].patient) = u}

\* Two patients with their own Patient rows, each with a contact, and a
\* third Patient row besides.
C12_Witness ==
    \E u, v \in users, c, d \in contact_rows :
        /\ u # v /\ NonSuper(u) /\ NonSuper(v)
        /\ role[u] = "patient" /\ role[v] = "patient"
        /\ PatientAdmin_get_queryset(u) = {u}
        /\ contacts[c].patient = u /\ contacts[d].patient = v
        /\ Cardinality(patients) = MaxUsers

\* C13: a superuser is allowed view, add, change and delete on every
\* Profile, Patient and EmergencyContact record and is listed every row of
\* the three collections, with any role in its profile and with no profile.
C13_SuperuserAll ==
    \A u \in users :
        is_superuser[u] =>
            /\ UserProfileAdmin_get_queryset(u) = profiles
            /\ PatientAdmin_get_queryset(u) = patients
            /\ EmergencyContactAdmin_get_queryset(u) = contact_rows
            /\ UserProfileAdmin_has_add_permission(u)
            /\ PatientAdmin_has_add_permission(u)
            /\ EmergencyContactAdmin_has_add_permission(u)
            /\ \A r \in profiles :
                   /\ UserProfileAdmin_has_view_permission(u, r)
                   /\ UserProfileAdmin_has_change_permission(u, r)
                   /\ UserProfileAdmin_has_delete_permission(u, r)
            /\ \A p \in patients :
                   /\ PatientAdmin_has_view_permission(u, p)
                   /\ PatientAdmin_has_change_permission(u, p)
                   /\ PatientAdmin_has_delete_permission(u, p)
            /\ \A c \in contact_rows :
                   /\ EmergencyContactAdmin_has_view_permission(u, c)
                   /\ EmergencyContactAdmin_has_change_permission(u, c)
                   /\ EmergencyContactAdmin_has_delete_permission(u, c)

\* C14: a non-superuser admin is allowed view, add, change and delete on
\* Profile, Patient and EmergencyContact records and is listed every row of
\* the three collections.
C14_AdminAll ==
    \A u \in users :
        (NonSuper(u) /\ role[u] = "admin") =>
            /\ UserProfileAdmin_get_queryset(u) = profiles
            /\ PatientAdmin_get_queryset(u) = patients
            /\ EmergencyContactAdmin_get_queryset(u) = contact_rows
            /\ UserProfileAdmin_has_add_permission(u)
            /\ PatientAdmin_has_add_permission(u)
            /\ EmergencyContactAdmin_has_add_permission(u)
            /\ \A r \in profiles :
                   /\ UserProfileAdmin_has_view_permission(u, r)
                   /\ UserProfileAdmin_has_change_permission(u, r)
                   /\ UserProfileAdmin_has_delete_permission(u, r)
            /\ \A p \in patients :
                   /\ PatientAdmin_has_view_permission(u, p)
                   /\ PatientAdmin_has_change_permission(u, p)
                   /\ PatientAdmin_has_delete_permission(u, p)
            /\ \A c \in contact_rows :
                   /\ EmergencyContactAdmin_has_view_permission(u, c)
                   /\ EmergencyContactAdmin_has_change_permission(u, c)
                   /\ EmergencyContactAdmin_has_delete_permission(u, c)

\* every permission check of the three admin classes denies u
DeniedEverywhere(u) ==
    /\ ~UserProfileAdmin_has_add_permission(u)
    /\ ~PatientAdmin_has_add_permission(u)
    /\ ~EmergencyContactAdmin_has_add_permission(u)
    /\ \A r \in profiles :
           /\ ~UserProfileAdmin_has_view_permission(u, r)
           /\ ~UserProfileAdmin_has_change_permission(u, r)
           /\ ~UserProfileAdmin_has_delete_permission(u, r)
    /\ \A p \in patients :
           /\ ~PatientAdmin_has_view_permission(u, p)
           /\ ~PatientAdmin_has_change_permission(u, p)
           /\ ~PatientAdmin_has_delete_permission(u, p)
    /\ \A c \in contact_rows :
           /\ ~EmergencyContactAdmin_has_view_permission(u, c)
           /\ ~EmergencyContactAdmin_has_change_permission(u, c)
           /\ ~EmergencyContactAdmin_has_delete_permission(u, c)

\* every scoped listing of the three admin classes is empty for u
EmptyEverywhere(u) ==
    /\ UserProfileAdmin_get_queryset(u) = {}
    /\ PatientAdmin_get_queryset(u) = {}
    /\ EmergencyContactAdmin_get_queryset(u) = {}

\* C15: for a non-superuser principal without a profile every view, add,
\* change and delete check on Profile, Patient and EmergencyContact records
\* is denied and every scoped listing is empty.
C15_NoProfileDenied ==
    \A u \in users :
        (NonSuper(u) /\ ~hasattr_profile(u)) =>
            (DeniedEverywhere(u) /\ EmptyEverywhere(u))

\* C16: for a non-superuser principal whose profile role is outside the
\* five roles every view, add, change and delete check is denied and the
\* scoped listing of Profiles, Patients and EmergencyContacts is empty.
C16_UnknownRoleFailsClosed ==
    \A u \in users :
        (NonSuper(u) /\ role[u] = UnknownRole) =>
            (DeniedEverywhere(u) /\ EmptyEverywhere(u))

\* C17: once a principal's profile has been saved with one of the five
\* roles and the principal is in its one group, no later state, between the
\* steps of a resync or after a resync that failed, has the principal in
\* zero groups or in two.
C17_NeverZeroOrTwoGroups ==
    [][ \A u \in Users :
            (role[u] \in Roles /\ Cardinality(groups[u]) = 1)
                => Cardinality(groups'[u]) = 1 ]_vars

\* C18: when EmergencyContact saves for one patient run concurrently, their
\* demotion and their own write interleaved in any order, no reachable
\* state has two primary contacts for that patient.
C18_NoTwoPrimariesConcurrent ==
    \A p \in patients : Cardinality(primary_contacts(p)) < 2

\* C19: when the group lookup/creation or the membership update fails
\* during the group sync of a profile save, the save still completes: the
\* profile is stored with its new role, and a patient still gets its
\* Patient row and staff flag.
C19_SyncFailureSwallowed ==
    [][ \A u \in Users, r \in Roles, fault \in {"clear", "add"} :
            SaveProfile(u, r, fault) =>
                /\ role'[u] = r
                /\ r = "patient" => (u \in patients' /\ is_staff'[u])
      ]_vars

\* A former patient stored as nurse whose sync failed before the clear (it
\* is still in Patients), and a patient whose sync failed after the clear
\* (it is in no group) and who has its Patient row.
C19_Witness ==
    \E u, v \in profiles :
        /\ role[u] = "nurse" /\ u \in patients /\ groups[u] = {"Patients"}
        /\ role[v] = "patient" /\ v \in patients /\ groups[v] = {}

AssignedDoctorIsDoctor ==
    \A p \in patients :
        assigned_doctor[p] = 0 \/ role[assigned_doctor[p]] = "doctor"

\* C20: after every Patient save, bulk assignment and role mutation each
\* Patient's assigned_doctor is unset or references a profile whose role is
\* doctor, and a Patient save that sets assigned_doctor to a non-doctor
\* profile leaves the stored assignment unchanged.
C20_AssignedDoctorValid ==
    [][ /\ AssignedDoctorIsDoctor'
        /\ \A p \in Users, d \in Users :
              (SavePatient(p, d) /\ role[d] # "doctor")
                  => assigned_doctor' = assigned_doctor
      ]_vars

\* C21: deleting a doctor profile deletes no Patient record, and
\* every Patient that was assigned to it still exists, unassigned and with
\* its owning profile unchanged.
C21_DoctorDeleteKeepsPatients ==
    [][ \A u \in Users :
            (DeleteProfile(u) /\ role[u] = "doctor") =>
                /\ patients' = patients
                /\ \A p \in patients :
                       assigned_doctor[p] = u =>
                           /\ p \in patients'
                           /\ assigned_doctor'[p] = 0
                           /\ role'[user_profile(p)] = role[user_profile(p)]
      ]_vars

\* C22: saving a Patient record whose user_profile has a role other than
\* patient, as a new record or as an update, writes nothing: no Patient
\* record is created or modified.
C22_NonPatientLinkRejected ==
    [][ /\ \A u \in Users :
              (CreatePatient(u) /\ role[u] # "patient")
                  => (patients' = patients /\ assigned_doctor' = assigned_doctor)
        /\ \A p \in Users, d \in Users \cup {0} :
              (SavePatient(p, d) /\ role[user_profile(p)] # "patient")
                  => (patients' = patients /\ assigned_doctor' = assigned_doctor)
      ]_vars

\* A doctor profile without a Patient row (a create for it is rejected) and
\* a doctor profile that still owns an assigned Patient row from its time
\* as a patient (an update of it is rejected).
C22_Witness ==
    \E u, v \in profiles :
        /\ role[u] = "doctor" /\ u \notin patients
        /\ role[v] = "doctor" /\ v \in patients /\ assigned_doctor[v] = u

LicenseDepartmentInvariant ==
    \A u \in profiles :
        /\ role[u] = "patient" => ~license_number[u]
        /\ role[u] \in {"doctor", "nurse", "pharmacy"} => license_number[u]
        /\ role[u] \in {"doctor", "nurse"} => department[u]

\* C23: after every profile creation and role mutation a patient profile
\* has no license number, a doctor, nurse or pharmacy profile has one, and
\* a doctor or nurse profile has a department; a profile save with role
\* doctor and no license number is rejected, the same save with role
\* patient succeeds.
C23_LicenseDepartment ==
    [][ /\ LicenseDepartmentInvariant'
        /\ \A u \in Users :
              /\ (SaveProfile(u, "doctor", "none") /\ ~license_number[u])
                     => role' = role
              /\ (SaveProfile(u, "patient", "none") /\ ~license_number[u])
                     => role'[u] = "patient"
      ]_vars

\* C24: the assigned_doctor field of a Patient is read-only for doctor,
\* nurse and patient principals and editable (on the form and not
\* read-only) for admin principals.
C24_AssignedDoctorReadOnly ==
    \A u \in users, p \in patients :
        NonSuper(u) =>
            /\ role[u] \in {"doctor", "nurse", "patient"}
                   => "assigned_doctor" \in PatientAdmin_get_readonly_fields(u, p)
            /\ role[u] = "admin"
                   => /\ "assigned_doctor" \in PatientAdmin_fieldsets
                      /\ "assigned_doctor"
                             \notin PatientAdmin_get_readonly_fields(u, p)

C26_PatientModuleAccess ==
    \A u \in users :
        (NonSuper(u) /\ role[u] = "patient") =>
            /\ PatientAdmin_has_module_permission(u)
            /\ ~UserProfileAdmin_has_module_permission(u)

\* C27: for User records a non-superuser doctor, nurse, pharmacy or patient
\* principal and one without a profile gets an empty listing and is denied
\* view, add, change, delete and module access; admins and superusers get
\* the full listing and are allowed all of them.
C27_UserAdminAdminOnly ==
    \A u \in users :
        LET Actions == {"view", "add", "change", "delete"}
        IN  /\ (is_superuser[u] \/ role[u] = "admin") =>
                   /\ UserAdmin_get_queryset(u) = users
                   /\ UserAdmin_has_module_permission(u)
                   /\ \A a \in Actions : UserAdmin_has_permission(u, a)
            /\ (NonSuper(u) /\ role[u] \in (Roles \ {"admin"}) \cup {NoProfile}) =>
                   /\ UserAdmin_get_queryset(u) = {}
                   /\ ~UserAdmin_has_module_permission(u)
                   /\ \A a \in Actions : ~UserAdmin_has_permission(u, a)

\* A patient whose group has been given permissions, a non-superuser
\* admin and a superuser without a profile.
C27_Witness ==
    \E u, v, w \in users :
        /\ NonSuper(u) /\ role[u] = "patient" /\ groups[u] = {"Patients"}
        /\ permissions_to_add \subseteq groupPerms["Patients"]
        /\ groups_permissions("Patients") \subseteq groupPerms["Patients"]
        /\ NonSuper(v) /\ role[v] = "admin"
        /\ is_superuser[w] /\ ~hasattr_profile(w)

\* C28: every existing Patient record is linked to a profile whose role is
\* patient, also after a role mutation has moved a profile away from
\* patient.
C28_PatientOwnedByPatientRole ==
    \A p \in patients : role[user_profile(p)] = "patient"

\* C29: whenever a principal that is neither a superuser nor an admin is
\* allowed to change a profile, through the Profile admin or through the
\* User admin that carries the profile inline, the role field is read-only
\* for it in both the Profile admin and the inline.
C29_RoleReadOnlyForNonAdmins ==
    \A u \in users : \A r \in profiles :
        (/\ NonSuper(u) /\ role[u] # "admin"
         /\ \/ UserProfileAdmin_has_change_permission(u, r)
            \/ UserAdmin_has_permission(u, "change")) =>
            /\ "role" \in UserProfileAdmin_get_readonly_fields(u, ProfileObj(r))
            /\ "role" \in UserProfileAdmin_get_readonly_fields(u, NoObj)
            /\ "role" \in UserProfileInline_get_readonly_fields(u)

\* A doctor allowed to change another profile and a patient allowed to
\* change its own.
C29_Witness ==
    \E u, v, r \in profiles :
        /\ NonSuper(u) /\ role[u] = "doctor" /\ r # u
        /\ UserProfileAdmin_has_change_permission(u, r)
        /\ NonSuper(v) /\ role[v] = "patient"
        /\ UserProfileAdmin_has_change_permission(v, v)

\* C30: a run of fix_user_groups without --dry-run leaves every user whose
\* profile has one of the five roles in exactly the group of its role,
\* whatever its memberships were before; a run with --dry-run changes no
\* membership.
C30_FixUserGroups ==
    [][/\ FixUserGroups(FALSE) =>
           \A u \in profiles :
               role[u] \in Roles => groups'[u] = {role_to_group(role[u])}
       /\ FixUserGroups(TRUE) => groups' = groups]_vars

====
